---- MODULE Spec2Model ----
(***************************************************************************)
(* AppPulse dashboard (src/dashboard.py): a Streamlit script that is run   *)
(* top to bottom on every user interaction.  The state is the file system  *)
(* the loader reads, the st.cache_data memo of load_data, the widget       *)
(* values of the session and everything the last script run displayed.     *)
(*                                                                         *)
(* Units.  Rating is kept in tenths (45 = 4.5), Price_Clean in cents,      *)
(* Size_MB in whole megabytes, Installs_Clean in millions, the sentiment   *)
(* polarity in hundredths.  A missing numeric cell is NaN, a missing text  *)
(* cell is NA.                                                             *)
(***************************************************************************)
EXTENDS Integers, Sequences, FiniteSets, TLC

VARIABLES disk, cache, read_log, widgets, run

vars == <<disk, cache, read_log, widgets, run>>

(***************************************************************************)
(* Missing values                                                          *)
(***************************************************************************)
\* numpy.nan in a numeric column: no number of the data equals it.
NaN == -9999

\* a missing cell of a text column (Category, Type)
NA == "<NA>"

\* a missing App cell; names are sequences of characters
NAName == << NA >>

isna(x) == x = NaN

(***************************************************************************)
(* Bounds of the model                                                     *)
(***************************************************************************)
\* most rows of a table drawn for the filter/aggregation specification
MaxRows == 3

\* rows the scatter chart samples: min(1000, len(df_filtered)) in the
\* source, scaled down to the table sizes of the model
SampleCap == 2

(***************************************************************************)
(* The data: rows of apps_with_features.csv                                *)
(***************************************************************************)
AppRecord(app, cat, typ, rating, reviews, installs, price, size, pol, pos, neg) ==
    [App |-> app, Category |-> cat, Type |-> typ, Rating |-> rating,
     Reviews |-> reviews, Installs_Clean |-> installs, Price_Clean |-> price,
     Size_MB |-> size, sentiment_polarity_mean |-> pol,
     positive_percentage |-> pos, negative_percentage |-> neg]

\* The rows tables are made of.  Rows 1-3 are the example of the
\* specification; the others carry the missing cells and the bin edges.
BaseRows ==
    << AppRecord(<<"A","l","p","h","a">>, "CatA", "Free", 45, 500, 10, 0, 5, 50, 80, 10),
       AppRecord(<<"b","e","t","a">>, "CatA", "Paid", 30, 50, 1, 199, 20, -20, 30, 60),
       AppRecord(<<"G","a","m","m","a">>, "CatB", "Free", 40, 2000, 900, 0, 60, 10, 60, 20),
       AppRecord(<<"Z","e","t","a">>, NA, "Free", 50, 100, 5, 1, 10, NaN, NaN, NaN),
       AppRecord(<<"a","l","p","s">>, "CatB", "Paid", NaN, 300, 2, 200, 0, 0, 50, 50),
       AppRecord(<<"D","e","l","t","a">>, "CatA", "Free", 40, NaN, 500, 15000, 600, 30, 70, 5),
       AppRecord(NAName, "CatB", NA, 45, 10000, 200, 499, 100, -10, 40, 45) >>

\* pd.read_csv gives the rows a RangeIndex 0..n-1, which every later
\* selection keeps as the row's label.
WithIndex(rows) ==
    [i \in 1..Len(rows) |-> [index |-> i - 1, row |-> rows[i]]]

\* the rows of BaseRows at the positions S, in file order
Pick(S) ==
    LET idx == SelectSeq([i \in 1..Len(BaseRows) |-> i], LAMBDA i : i \in S)
    IN  [j \in 1..Len(idx) |-> BaseRows[idx[j]]]

\* the tables a csv file may hold: 1..MaxRows rows of BaseRows
Tables ==
    { Pick(S) : S \in { T \in SUBSET (1..Len(BaseRows)) :
                          Cardinality(T) >= 1 /\ Cardinality(T) <= MaxRows } }

\* the table of the specification's example, and one with missing cells
ExampleTable == Pick({1, 2, 3})
MessyTable == Pick({4, 5, 7})

(***************************************************************************)
(* File system                                                             *)
(***************************************************************************)
\* the two paths load_data tries, in order
CandidatePaths == << "apps_with_features.csv", "data/apps_with_features.csv" >>

Missing == [kind |-> "missing", rows |-> << >>]
Corrupt == [kind |-> "corrupt", rows |-> << >>]
Csv(rows) == [kind |-> "csv", rows |-> rows]

DiskContents == {Missing, Corrupt, Csv(ExampleTable), Csv(MessyTable)}

(***************************************************************************)
(* DATA LOADING                                                            *)
(***************************************************************************)
None == [none |-> TRUE, rows |-> << >>]
DataFrame(rows) == [none |-> FALSE, rows |-> rows]

\* pd.read_csv(path): the parsed table, or an exception when the file is
\* missing (FileNotFoundError) or cannot be parsed (a parser error)
read_csv(d, p) ==
    IF d[p].kind = "csv"
    THEN [raised |-> FALSE, exception |-> "", df |-> DataFrame(WithIndex(d[p].rows))]
    ELSE [raised |-> TRUE,
          exception |-> IF d[p].kind = "missing" THEN "FileNotFoundError"
                        ELSE "ParserError",
          df |-> None]

\* the body of load_data: the first candidate, and on any exception (the
\* except clauses name none) the second one; st.error and None when both
\* raise.  log is the read_csv calls made, in order.
load_data(d) ==
    LET first == read_csv(d, 1)
        second == read_csv(d, 2)
        entry(p, r) == [path |-> CandidatePaths[p], raised |-> r.raised,
                        exception |-> r.exception, df |-> r.df]
    IN  IF ~first.raised
        THEN [value |-> first.df, error |-> FALSE, log |-> << entry(1, first) >>]
        ELSE IF ~second.raised
        THEN [value |-> second.df, error |-> FALSE,
              log |-> << entry(1, first), entry(2, second) >>]
        ELSE [value |-> None, error |-> TRUE,
              log |-> << entry(1, first), entry(2, second) >>]

EmptyCache == [filled |-> FALSE, value |-> None, error |-> FALSE]

\* a load_data that reads the files on every call
st_cache_data_no_memo(c, d, log) ==
    LET r == load_data(d)
    IN  [value |-> r.value, error |-> r.error, hit |-> c.filled,
         cache |-> [filled |-> TRUE, value |-> r.value, error |-> r.error],
         log |-> log \o r.log]

\* @st.cache_data: the first call runs the body and stores its return
\* value (None included) with the elements it drew; every later call
\* returns the stored value and replays the stored st.error.
st_cache_data(c, d, log) ==
    IF c.filled
    THEN [value |-> c.value, error |-> c.error, hit |-> TRUE, cache |-> c,
          log |-> log]
    ELSE LET r == load_data(d)
         IN  [value |-> r.value, error |-> r.error, hit |-> FALSE,
              cache |-> [filled |-> TRUE, value |-> r.value, error |-> r.error],
              log |-> log \o r.log]

(***************************************************************************)
(* SIDEBAR - FILTERS                                                       *)
(***************************************************************************)
AllCategories == "All Categories"
AllTypes == "All Types"

\* sorted(...) of a set of strings; the model's category names are
\* ordered by this list
CategoryOrder == << "CatA", "CatB" >>
SetToSortedSeq(S) == SelectSeq(CategoryOrder, LAMBDA c : c \in S)

\* ['All Categories'] + sorted(df['Category'].dropna().unique().tolist())
categories(rows) ==
    << AllCategories >> \o
    SetToSortedSeq({ rows[i].row.Category : i \in 1..Len(rows) } \ {NA})

app_types == << AllTypes, "Free", "Paid" >>

\* slider stops tried by the model: Minimum Rating 0.0..5.0 step 0.5 (in
\* tenths), Minimum Reviews 0..10000 step 100
RatingStops == {0, 40, 50}
ReviewStops == {0, 500, 10000}

DefaultWidgets ==
    [selected_category |-> AllCategories, selected_type |-> AllTypes,
     min_rating |-> 0, min_reviews |-> 0, search_query |-> << >>]

\* a comparison with a missing value is False
ge(x, threshold) == ~isna(x) /\ x >= threshold

\* df[df['Category'] == selected_category]: NA equals nothing
eq(x, selected) == x # NA /\ x = selected

Where(rows, P(_)) == SelectSeq(rows, P)

\* "Apply filters", with a missing rating passing a threshold of 0
apply_filters_nan_passes(rows, w) ==
    SelectSeq(rows, LAMBDA r :
        /\ (w.selected_category = AllCategories \/ r.row.Category = w.selected_category)
        /\ (w.selected_type = AllTypes \/ r.row.Type = w.selected_type)
        /\ (isna(r.row.Rating) \/ r.row.Rating >= w.min_rating)
        /\ (isna(r.row.Reviews) \/ r.row.Reviews >= w.min_reviews))

\* "Apply filters", with the rating comparison turned around
apply_filters_rating_le(rows, w) ==
    SelectSeq(rows, LAMBDA r :
        /\ (w.selected_category = AllCategories \/ r.row.Category = w.selected_category)
        /\ (w.selected_type = AllTypes \/ r.row.Type = w.selected_type)
        /\ ~isna(r.row.Rating) /\ r.row.Rating <= w.min_rating
        /\ ~isna(r.row.Reviews) /\ r.row.Reviews >= w.min_reviews)

\* "Apply filters": df.copy(), then one boolean-mask selection after
\* another; the two selectors are skipped when they are at 'All ...'.
apply_filters(rows, w) ==
    LET s0 == rows
        s1 == IF w.selected_category # AllCategories
              THEN Where(s0, LAMBDA r : eq(r.row.Category, w.selected_category))
              ELSE s0
        s2 == IF w.selected_type # AllTypes
              THEN Where(s1, LAMBDA r : eq(r.row.Type, w.selected_type))
              ELSE s1
        s3 == Where(s2, LAMBDA r : ge(r.row.Rating, w.min_rating))
        s4 == Where(s3, LAMBDA r : ge(r.row.Reviews, w.min_reviews))
    IN  s4

(***************************************************************************)
(* Numbers the script computes                                             *)
(***************************************************************************)
\* a real number num/den (den > 0); den = 0 is float('nan')
Q(num, den) == [num |-> num, den |-> den]
NaNQ == Q(0, 0)
isnan(q) == q.den = 0

RECURSIVE SumSeq(_)
SumSeq(s) == IF s = << >> THEN 0 ELSE Head(s) + SumSeq(Tail(s))

\* the cells of one column
Column(rows, name) == [i \in 1..Len(rows) |-> rows[i].row[name]]

notna(col) == SelectSeq(col, LAMBDA x : ~isna(x))

\* Series.sum(): missing cells are skipped, the empty sum is 0
sum(col) == SumSeq(notna(col))

\* Series.mean(): missing cells are skipped, the mean of nothing is nan;
\* unit is the number of model units in one unit of the column
mean(col, unit) ==
    LET v == notna(col)
    IN  IF Len(v) = 0 THEN NaNQ ELSE Q(SumSeq(v), Len(v) * unit)

RECURSIVE Pow10(_)
Pow10(d) == IF d = 0 THEN 1 ELSE 10 * Pow10(d - 1)

\* round(q * 10^d) to the nearest integer, ties to even
RoundScaled(q, d) ==
    LET n == q.num * Pow10(d)
        f == n \div q.den
        r == n - f * q.den
    IN  IF 2 * r < q.den THEN f
        ELSE IF 2 * r > q.den THEN f + 1
        ELSE IF f % 2 = 0 THEN f ELSE f + 1

\* f"{q:.<d>f}<suffix>": the text shown; nan is formatted as "nan"
Format(q, d, suffix) ==
    IF isnan(q)
    THEN [text |-> "nan", scaled |-> 0, decimals |-> d, suffix |-> suffix]
    ELSE [text |-> "number", scaled |-> RoundScaled(q, d), decimals |-> d,
          suffix |-> suffix]

NoText == [text |-> "none", scaled |-> 0, decimals |-> 0, suffix |-> ""]

\* a - b on floats: nan when either is nan
Minus(a, b) ==
    IF isnan(a) \/ isnan(b) THEN NaNQ
    ELSE Q(a.num * b.den - b.num * a.den, a.den * b.den)

(***************************************************************************)
(* IEEE 754 binary64 (Python float, numpy.float64), for values >= 0        *)
(*                                                                         *)
(* A finite non-zero value is m * 2^e with a 53-bit significand, kept in   *)
(* three limbs so that no intermediate value leaves 32 bits:               *)
(* m = a * 2^36 + b * 2^18 + c, 2^16 <= a < 2^17 and b, c < 2^18; zero has *)
(* a = b = c = 0.  Every operation computes the exact result and rounds it *)
(* once, to nearest, ties to even.                                         *)
(***************************************************************************)
\* bits of a binary64 significand
Precision == 53

\* bits of a low limb, and of the top limb of a normalized significand
LimbBits == (Precision + 1) \div 3
TopBits == Precision - 2 * LimbBits
Limb == 2 ^ LimbBits

F64(a, b, c, e) == [nan |-> FALSE, a |-> a, b |-> b, c |-> c, e |-> e]
F64Zero == F64(0, 0, 0, 0)
F64NaN == [nan |-> TRUE, a |-> 0, b |-> 0, c |-> 0, e |-> 0]

\* the number of bits of n >= 1
BitLen(n) == CHOOSE l \in 1..31 : 2 ^ (l - 1) <= n /\ (l = 31 \/ n < 2 ^ l)

\* (a, b, c) + 1, renormalized when the significand overflows
RoundUp(a, b, c, e) ==
    IF c + 1 < Limb THEN F64(a, b, c + 1, e)
    ELSE IF b + 1 < Limb THEN F64(a, b + 1, 0, e)
    ELSE IF a + 1 < 2 ^ TopBits THEN F64(a + 1, 0, 0, e)
    ELSE F64(2 ^ (TopBits - 1), 0, 0, e + 1)

\* the binary64 nearest to (a * 2^36 + b * 2^18 + c) * 2^e, where a has
\* TopBits bits or more
Normalize(a, b, c, e) ==
    LET s == BitLen(a) - TopBits
        p == 2 ^ s
        up == 2 ^ (LimbBits - s)
        na == a \div p
        nb == (b \div p) + (a % p) * up
        nc == (c \div p) + (b % p) * up
        dropped == c % p
    IN  IF s = 0 THEN F64(a, b, c, e)
        ELSE IF 2 * dropped > p \/ (2 * dropped = p /\ nc % 2 = 1)
        THEN RoundUp(na, nb, nc, e + s)
        ELSE F64(na, nb, nc, e + s)

\* float(k) for 1 <= k < 2^17
F64FromInt(k) ==
    IF k = 0 THEN F64Zero
    ELSE F64(k * 2 ^ (TopBits - BitLen(k)), 0, 0, BitLen(k) - (TopBits + 2 * LimbBits))

\* numpy.int64(k) / n for 0 <= k <= n < 2^13: 0/0 is nan (numpy warns and
\* does not raise)
F64DivInt(k, n) ==
    IF n = 0 THEN F64NaN
    ELSE IF k = 0 THEN F64Zero
    ELSE LET j == CHOOSE i \in 0..13 : n <= k * 2 ^ i /\ k * 2 ^ i < 2 * n
             x0 == k * 2 ^ j
             a == (x0 * 2 ^ (TopBits - 1)) \div n
             r1 == (x0 * 2 ^ (TopBits - 1)) % n
             b == (r1 * Limb) \div n
             r2 == (r1 * Limb) % n
             c == (r2 * Limb) \div n
             r3 == (r2 * Limb) % n
             e == 0 - j - (TopBits - 1) - 2 * LimbBits
         IN  IF 2 * r3 > n \/ (2 * r3 = n /\ c % 2 = 1)
             THEN RoundUp(a, b, c, e)
             ELSE F64(a, b, c, e)

\* x * k for an integer 1 <= k < 2^12
F64MulInt(x, k) ==
    IF x.nan THEN F64NaN
    ELSE IF x.a = 0 THEN F64Zero
    ELSE LET pc == x.c * k
             pb == x.b * k + pc \div Limb
             pa == x.a * k + pb \div Limb
         IN  Normalize(pa, pb % Limb, pc % Limb, x.e)

\* x + y, for exponents at most 12 apart
F64Add(x, y) ==
    IF x.nan \/ y.nan THEN F64NaN
    ELSE IF x.a = 0 THEN y
    ELSE IF y.a = 0 THEN x
    ELSE LET hi == IF x.e >= y.e THEN x ELSE y
             lo == IF x.e >= y.e THEN y ELSE x
             p == 2 ^ (hi.e - lo.e)
             sc == hi.c * p + lo.c
             sb == hi.b * p + lo.b + sc \div Limb
             sa == hi.a * p + lo.a + sb \div Limb
         IN  Normalize(sa, sb % Limb, sc % Limb, lo.e)

\* round(x * 10^d) for 0 <= x < 2^17 and d <= 1, on the exact value of x
F64RoundScaled(x, d) ==
    IF x.a = 0 THEN 0
    ELSE LET k == IF d = 0 THEN 1 ELSE 10
             pc == x.c * k
             pb == x.b * k + pc \div Limb
             pa == x.a * k + pb \div Limb
             t == 0 - x.e - 2 * LimbBits
             whole == pa \div 2 ^ t
             frac == pa % 2 ^ t
             half == 2 ^ (t - 1)
             low == (pb % Limb) # 0 \/ (pc % Limb) # 0
         IN  IF frac > half \/ (frac = half /\ (low \/ whole % 2 = 1))
             THEN whole + 1
             ELSE whole

\* f"{x:.<d>f}<suffix>" of a binary64
F64Format(x, d, suffix) ==
    IF x.nan
    THEN [text |-> "nan", scaled |-> 0, decimals |-> d, suffix |-> suffix]
    ELSE [text |-> "number", scaled |-> F64RoundScaled(x, d), decimals |-> d,
          suffix |-> suffix]

Label(s) == [text |-> s, scaled |-> 0, decimals |-> 0, suffix |-> ""]

(***************************************************************************)
(* KEY METRICS                                                             *)
(***************************************************************************)
Metric(value, delta) == [value |-> value, delta |-> delta]

\* col1: "Total Apps"
total_apps_metric(df, df_filtered, w) ==
    Metric(Format(Q(Len(df_filtered), 1), 0, ""),
           IF w.selected_category # AllCategories
           THEN Format(Q(Len(df_filtered) - Len(df), 1), 0, "")
           ELSE NoText)

\* avg_rating = df_filtered['Rating'].mean()
avg_rating(df_filtered) == mean(Column(df_filtered, "Rating"), 10)

\* col2: "Average Rating"
avg_rating_metric(df, df_filtered) ==
    Metric(Format(avg_rating(df_filtered), 2, " "),
           IF Len(df_filtered) < Len(df)
           THEN Format(Minus(avg_rating(df_filtered), avg_rating(df)), 2, "")
           ELSE NoText)

\* total_installs = df_filtered['Installs_Clean'].sum(), in millions
total_installs(df_filtered) == sum(Column(df_filtered, "Installs_Clean"))

\* col3: "Total Installs": billions above 1e9, else millions
total_installs_metric(df_filtered) ==
    LET t == total_installs(df_filtered)
    IN  Metric(IF t > 1000 THEN Format(Q(t, 1000), 1, "B")
               ELSE Format(Q(t, 1), 0, "M"),
               NoText)

\* (df_filtered['Type'] == 'Free').sum()
free_count(df_filtered) ==
    Len(SelectSeq(df_filtered, LAMBDA r : r.row.Type = "Free"))

\* the free share with a floor division for the true one
free_percentage_floordiv(df_filtered) ==
    IF Len(df_filtered) = 0 THEN F64NaN
    ELSE F64MulInt(F64FromInt(free_count(df_filtered) \div Len(df_filtered)), 100)

\* free_percentage = (df_filtered['Type'] == 'Free').sum() / len(df_filtered) * 100
free_percentage(df_filtered) ==
    F64MulInt(F64DivInt(free_count(df_filtered), Len(df_filtered)), 100)

\* col4: "Free Apps"
free_percentage_metric(df_filtered) ==
    Metric(F64Format(free_percentage(df_filtered), 1, "%"), NoText)

(***************************************************************************)
(* CATEGORY ANALYSIS                                                       *)
(***************************************************************************)
\* the group keys of groupby('Category'): rows with a missing key are in
\* no group
GroupKeys(df_filtered) ==
    { df_filtered[i].row.Category : i \in 1..Len(df_filtered) } \ {NA}

Group(df_filtered, key) ==
    SelectSeq(df_filtered, LAMBDA r : r.row.Category = key)

\* 'count': the cells of the column that are not missing
count(names) == Len(SelectSeq(names, LAMBDA x : x # NAName))

\* DataFrame.round(2) of a float cell
round2(q) == IF isnan(q) THEN NaNQ ELSE Q(RoundScaled(q, 2), 100)

\* one row of category_summary: agg({'App': 'count', 'Rating': 'mean',
\* 'Reviews': 'sum', 'Installs_Clean': 'sum'}).round(2)
summary_row(df_filtered, key) ==
    LET g == Group(df_filtered, key)
    IN  [Category |-> key,
         App_Count |-> count(Column(g, "App")),
         Avg_Rating |-> round2(mean(Column(g, "Rating"), 10)),
         Total_Reviews |-> sum(Column(g, "Reviews")),
         Total_Installs |-> sum(Column(g, "Installs_Clean"))]

\* category_summary; the order of the rows (by App Count, descending) is
\* not kept
category_summary(df_filtered) ==
    { summary_row(df_filtered, key) : key \in GroupKeys(df_filtered) }

\* category_counts = df_filtered['Category'].value_counts(): missing
\* categories are not counted (head(10) cuts nothing here)
category_counts(df_filtered) ==
    [key \in GroupKeys(df_filtered) |-> Len(Group(df_filtered, key))]

(***************************************************************************)
(* RATING ANALYSIS                                                         *)
(***************************************************************************)
\* the outcomes of df_filtered.sample(min(1000, len(df_filtered))): no
\* random_state is given, so any rows of that number may be drawn (the
\* order they are drawn in is not kept)
sample(df_filtered) ==
    LET n == IF SampleCap < Len(df_filtered) THEN SampleCap ELSE Len(df_filtered)
        all == { df_filtered[i] : i \in 1..Len(df_filtered) }
    IN  { S \in SUBSET all : Cardinality(S) = n }

(***************************************************************************)
(* SENTIMENT ANALYSIS                                                      *)
(***************************************************************************)
avg_polarity(df_filtered) == mean(Column(df_filtered, "sentiment_polarity_mean"), 100)
avg_positive(df_filtered) == mean(Column(df_filtered, "positive_percentage"), 1)
avg_negative(df_filtered) == mean(Column(df_filtered, "negative_percentage"), 1)

\* nan > 0 is False
avg_polarity_metric(df_filtered) ==
    LET q == avg_polarity(df_filtered)
    IN  Metric(Format(q, 2, ""),
               IF ~isnan(q) /\ q.num > 0 THEN Label("Positive") ELSE Label("Negative"))

avg_positive_metric(df_filtered) == Metric(Format(avg_positive(df_filtered), 1, "%"), NoText)
avg_negative_metric(df_filtered) == Metric(Format(avg_negative(df_filtered), 1, "%"), NoText)

(***************************************************************************)
(* SUCCESS FACTORS                                                         *)
(***************************************************************************)
\* bins=[0, 0.01, 2, 5, 10, 100] dollars, in cents
price_bins == << 0, 1, 200, 500, 1000, 10000 >>
price_labels == << "Free", "$0-2", "$2-5", "$5-10", "$10+" >>

\* bins=[0, 10, 50, 100, 500] megabytes
size_bins == << 0, 10, 50, 100, 500 >>
size_labels == << "<10MB", "10-50MB", "50-100MB", ">100MB" >>

\* pd.cut(x, bins): the interval (bins[i], bins[i+1]] holding x, its
\* number, or 0 (a missing category) when x is missing or in no interval
cut(x, bins) ==
    IF isna(x) THEN 0
    ELSE IF \E i \in 1..(Len(bins) - 1) : bins[i] < x /\ x <= bins[i + 1]
    THEN CHOOSE i \in 1..(Len(bins) - 1) : bins[i] < x /\ x <= bins[i + 1]
    ELSE 0

\* a groupby that reports an empty interval as 0
bucket_means_zero(df_filtered, name, bins) ==
    [i \in 1..(Len(bins) - 1) |->
        LET g == SelectSeq(df_filtered, LAMBDA r : cut(r.row[name], bins) = i)
        IN  IF Len(g) = 0 THEN Q(0, 1) ELSE mean(Column(g, "Rating"), 10)]

\* df_filtered.groupby(pd.cut(df_filtered[name], bins))['Rating'].mean():
\* one value per interval, in bin order (the grouper is categorical and
\* unobserved intervals are kept), nan for an interval without rows; rows
\* in no interval are in no group
bucket_means(df_filtered, name, bins) ==
    [i \in 1..(Len(bins) - 1) |->
        LET g == SelectSeq(df_filtered, LAMBDA r : cut(r.row[name], bins) = i)
        IN  mean(Column(g, "Rating"), 10)]

price_rating(df_filtered) == bucket_means(df_filtered, "Price_Clean", price_bins)
size_rating(df_filtered) == bucket_means(df_filtered, "Size_MB", size_bins)

\* px.bar(x=labels, y=values): the bars, label by label
bar(labels, values) == [i \in 1..Len(labels) |-> [x |-> labels[i], y |-> values[i]]]

(***************************************************************************)
(* DATA EXPLORER                                                           *)
(***************************************************************************)
lower(ch) ==
    CASE ch = "A" -> "a" [] ch = "D" -> "d" [] ch = "G" -> "g"
      [] ch = "L" -> "l" [] ch = "Z" -> "z" [] OTHER -> ch

\* Series.str.contains(query, case=False, na=False) for a query of letters
contains(name, query) ==
    /\ name # NAName
    /\ \E i \in 1..(Len(name) - Len(query) + 1) :
          \A j \in 1..Len(query) : lower(name[i + j - 1]) = lower(query[j])

\* the search box values tried by the model
SearchQueries == { << >>, <<"A", "L">> }

search_results(df_filtered, query) ==
    IF query = << >> THEN << >>
    ELSE SelectSeq(df_filtered, LAMBDA r : contains(r.row.App, query))

\* df_filtered.to_csv(index=False): the rows without their labels
to_csv(df_filtered) == [i \in 1..Len(df_filtered) |-> df_filtered[i].row]


(***************************************************************************)
(* One run of the script                                                   *)
(***************************************************************************)
\* the sections below "Load data", in script order
Sections ==
    << "SIDEBAR - FILTERS", "KEY METRICS", "CATEGORY ANALYSIS", "RATING ANALYSIS",
       "SENTIMENT ANALYSIS", "TOP PERFORMERS", "SUCCESS FACTORS", "DATA EXPLORER",
       "FOOTER" >>

NoMetrics ==
    [name \in {"Total Apps", "Average Rating", "Total Installs", "Free Apps",
               "Average Sentiment", "Positive Reviews", "Negative Reviews"} |->
        Metric(NoText, NoText)]

\* nothing has been drawn
BlankRun ==
    [ran |-> FALSE, cache_hit |-> FALSE, stopped |-> FALSE, error |-> FALSE,
     sections |-> << >>, df |-> None, criteria |-> DefaultWidgets, df_filtered |-> << >>,
     metrics |-> NoMetrics, free_percentage |-> F64NaN,
     category_summary |-> {}, category_counts |-> << >>, sample_df |-> {},
     price_chart |-> << >>, size_chart |-> << >>,
     search_results |-> << >>, csv |-> << >>]

\* a script without "if df is None: st.stop()": it goes on into the sidebar,
\* where df['Category'] fails on None
StoppedRun_no_stop(loaded) ==
    [BlankRun EXCEPT !.ran = TRUE, !.cache_hit = loaded.hit, !.error = loaded.error,
                     !.sections = << "SIDEBAR - FILTERS" >>]

\* df = load_data(); if df is None: st.stop().  cache_hit tells whether
\* load_data was answered from the memo.
StoppedRun(loaded) ==
    [BlankRun EXCEPT !.ran = TRUE, !.cache_hit = loaded.hit, !.stopped = TRUE,
                     !.error = loaded.error]

\* the script below line 114, for the widget values w and the rows drawn
\* by sample()
RenderedRun(loaded, w, drawn) ==
    LET df == loaded.value.rows
        df_filtered == apply_filters(df, w)
    IN  [ran |-> TRUE, cache_hit |-> loaded.hit, stopped |-> FALSE,
         error |-> loaded.error,
         sections |-> Sections,
         df |-> loaded.value,
         criteria |-> w,
         df_filtered |-> df_filtered,
         metrics |->
            [name \in DOMAIN NoMetrics |->
                CASE name = "Total Apps" -> total_apps_metric(df, df_filtered, w)
                  [] name = "Average Rating" -> avg_rating_metric(df, df_filtered)
                  [] name = "Total Installs" -> total_installs_metric(df_filtered)
                  [] name = "Free Apps" -> free_percentage_metric(df_filtered)
                  [] name = "Average Sentiment" -> avg_polarity_metric(df_filtered)
                  [] name = "Positive Reviews" -> avg_positive_metric(df_filtered)
                  [] name = "Negative Reviews" -> avg_negative_metric(df_filtered)],
         free_percentage |-> free_percentage(df_filtered),
         category_summary |-> category_summary(df_filtered),
         category_counts |-> category_counts(df_filtered),
         sample_df |-> drawn,
         price_chart |-> bar(price_labels, price_rating(df_filtered)),
         size_chart |-> bar(size_labels, size_rating(df_filtered)),
         search_results |-> search_results(df_filtered, w.search_query),
         csv |-> to_csv(df_filtered)]

\* A script run with the widget values w: the (memoized) load, st.stop()
\* on None, and otherwise every section to the footer.
Rerun(w) ==
    LET loaded == st_cache_data(cache, disk, read_log)
    IN  /\ cache' = loaded.cache
        /\ read_log' = loaded.log
        /\ widgets' = w
        /\ IF loaded.value.none
           THEN run' = StoppedRun(loaded)
           ELSE \E drawn \in sample(apply_filters(loaded.value.rows, w)) :
                    run' = RenderedRun(loaded, w, drawn)
        /\ UNCHANGED disk

\* the widgets exist only on a page that was drawn to the end
Interactive == run.ran /\ ~run.stopped

(***************************************************************************)
(* User interactions and the environment                                   *)
(***************************************************************************)
\* a browser opens (or reloads) the page: a new session with the widget
\* defaults
OpenPage == Rerun(DefaultWidgets)

SelectCategory(c) ==
    /\ Interactive
    /\ c # widgets.selected_category
    /\ Rerun([widgets EXCEPT !.selected_category = c])

SelectType(t) ==
    /\ Interactive
    /\ t # widgets.selected_type
    /\ Rerun([widgets EXCEPT !.selected_type = t])

SlideMinRating(r) ==
    /\ Interactive
    /\ r # widgets.min_rating
    /\ Rerun([widgets EXCEPT !.min_rating = r])

SlideMinReviews(n) ==
    /\ Interactive
    /\ n # widgets.min_reviews
    /\ Rerun([widgets EXCEPT !.min_reviews = n])

Search(q) ==
    /\ Interactive
    /\ q # widgets.search_query
    /\ Rerun([widgets EXCEPT !.search_query = q])

\* a click on "Download Filtered Data as CSV" reruns the script
Download ==
    /\ Interactive
    /\ Rerun(widgets)

\* somebody places, replaces, damages or removes a candidate file
WriteFile(p, content) ==
    /\ content # disk[p]
    /\ disk' = [disk EXCEPT ![p] = content]
    /\ UNCHANGED <<cache, read_log, widgets, run>>

CategoryOptions == { categories(run.df.rows)[i] : i \in 1..Len(categories(run.df.rows)) }
TypeOptions == { app_types[i] : i \in 1..Len(app_types) }

FilterChange ==
    \/ \E c \in CategoryOptions : SelectCategory(c)
    \/ \E t \in TypeOptions : SelectType(t)
    \/ \E r \in RatingStops : SlideMinRating(r)
    \/ \E n \in ReviewStops : SlideMinReviews(n)

(***************************************************************************)
(* The process: from its start, with any files on disk                     *)
(***************************************************************************)
Init ==
    /\ disk \in [1..2 -> DiskContents]
    /\ cache = EmptyCache
    /\ read_log = << >>
    /\ widgets = DefaultWidgets
    /\ run = BlankRun

Next ==
    \/ OpenPage
    \/ FilterChange
    \/ \E q \in SearchQueries : Search(q)
    \/ Download
    \/ \E p \in 1..2, content \in DiskContents : WriteFile(p, content)

Spec == Init /\ [][Next]_vars

(***************************************************************************)
(* The filter and the aggregations over every table of Tables: the file is *)
(* in place and stays as it is                                             *)
(***************************************************************************)
FilterInit ==
    /\ \E t \in Tables : disk = [p \in 1..2 |-> IF p = 1 THEN Csv(t) ELSE Missing]
    /\ cache = EmptyCache
    /\ read_log = << >>
    /\ widgets = DefaultWidgets
    /\ run = BlankRun

FilterNext ==
    \/ OpenPage
    \/ FilterChange

FilterSpec == FilterInit /\ [][FilterNext]_vars


(***************************************************************************)
(* Properties                                                              *)
(***************************************************************************)
\* the last script run drew the whole page
Rendered == run.ran /\ ~run.stopped

Dataset == run.df.rows
FilteredView == run.df_filtered
RowSet(rows) == { rows[i] : i \in 1..Len(rows) }

\* the four predicates of the filter contract for the criteria w
Satisfies(r, w) ==
    /\ (r.row.Category = w.selected_category \/ w.selected_category = AllCategories)
    /\ (r.row.Type = w.selected_type \/ w.selected_type = AllTypes)
    /\ r.row.Rating # NaN /\ r.row.Rating >= w.min_rating
    /\ r.row.Reviews # NaN /\ r.row.Reviews >= w.min_reviews

\* C1: the FilteredView is exactly the Dataset rows that satisfy all four
\* predicates, in input row order, and holds no row whose rating or review
\* count is missing, whatever the thresholds are.
C1_FilterExact ==
    Rendered =>
        /\ FilteredView = SelectSeq(Dataset, LAMBDA r : Satisfies(r, run.criteria))
        /\ \A r \in RowSet(FilteredView) : r.row.Rating # NaN /\ r.row.Reviews # NaN

\* a table with a missing rating and a missing review count under
\* thresholds of 0: the other rows are shown, those two are not
C1_Witness ==
    /\ Rendered
    /\ run.criteria = DefaultWidgets
    /\ \E r \in RowSet(Dataset) : r.row.Rating = NaN
    /\ \E r \in RowSet(Dataset) : r.row.Reviews = NaN
    /\ Len(FilteredView) = 1
    /\ Len(Dataset) = 3

\* the metrics that aggregate the FilteredView
AggregateMetrics ==
    {"Average Rating", "Total Installs", "Free Apps", "Average Sentiment",
     "Positive Reviews", "Negative Reviews"}

\* C2: with an empty FilteredView every aggregate metric shows an explicit
\* "no data" result: neither a number (a zero) nor a formatted nan.
C2_EmptyViewShowsNoData ==
    (Rendered /\ FilteredView = << >>) =>
        \A name \in AggregateMetrics :
            run.metrics[name].value.text \notin {"number", "nan"}

\* the candidates the load found on disk, in order
Existing == SelectSeq(read_log, LAMBDA x : x.exception # "FileNotFoundError")

\* C3 as stated: when no candidate path exists, or the first existing one
\* fails to parse, the error is shown and the run stops before any section;
\* otherwise the run goes through every section with the parsed table.
C3_ParseFailureStops ==
    run.ran =>
        IF Existing = << >> \/ Existing[1].raised
        THEN run.stopped /\ run.error /\ run.sections = << >>
        ELSE ~run.stopped /\ run.sections = Sections /\ run.df = Existing[1].df

\* C3 as amended: the load fails exactly when every candidate path is
\* missing or fails to parse (a candidate that fails to parse passes the
\* load on to the next one); a failed load shows the error and stops the
\* run before any section; a successful load goes through every section
\* with the whole table of the first candidate that parsed.
C3_FailedLoadStops ==
    run.ran =>
        /\ cache.filled
        /\ Len(read_log) \in 1..2
        /\ \A i \in 1..Len(read_log) : read_log[i].path = CandidatePaths[i]
        /\ cache.value.none <=>
              (Len(read_log) = 2 /\ \A i \in 1..2 : read_log[i].raised)
        /\ cache.value.none =>
              /\ run.stopped /\ run.error
              /\ run.sections = << >>
              /\ run = [BlankRun EXCEPT !.ran = TRUE, !.stopped = TRUE,
                                        !.error = TRUE, !.cache_hit = run.cache_hit]
        /\ ~cache.value.none =>
              /\ ~run.stopped /\ ~run.error
              /\ run.sections = Sections
              /\ ~read_log[Len(read_log)].raised
              /\ run.df = read_log[Len(read_log)].df
              /\ \A i \in 1..(Len(read_log) - 1) : read_log[i].raised

\* the first candidate did not parse and the second is missing: the error
\* is shown and nothing else is
C3_Witness ==
    /\ run.ran /\ run.stopped /\ run.error
    /\ Len(read_log) = 2
    /\ read_log[1].exception = "ParserError"
    /\ read_log[2].exception = "FileNotFoundError"
    /\ run.sections = << >>

RECURSIVE SumAppCount(_)
SumAppCount(S) ==
    IF S = {} THEN 0
    ELSE LET x == CHOOSE y \in S : TRUE
         IN  x.App_Count + SumAppCount(S \ {x})

\* C4: the App Count cells of category_summary sum to the number of rows
\* of the FilteredView.
C4_CountsSumToCount ==
    Rendered => SumAppCount(run.category_summary) = Len(FilteredView)

\* (df_filtered['Type'] == 'Paid').sum() / len(df_filtered) * 100
paid_count(rows) == Len(SelectSeq(rows, LAMBDA r : r.row.Type = "Paid"))
paid_percentage(rows) == F64MulInt(F64DivInt(paid_count(rows), Len(rows)), 100)

Hundred == F64FromInt(100)

\* x and y are at most k units in the last place apart (same binade)
WithinUlps(x, y, k) ==
    /\ ~x.nan /\ ~y.nan
    /\ x.e = y.e
    /\ x.a - y.a \in -1..1
    /\ (x.a - y.a) * Limb + (x.b - y.b) \in -1..1
    /\ ((x.a - y.a) * Limb + (x.b - y.b)) * Limb + (x.c - y.c) \in (0 - k)..k

\* x < y for finite x, y >= 0
F64Less(x, y) ==
    IF y.a = 0 THEN FALSE
    ELSE IF x.a = 0 THEN TRUE
    ELSE \/ x.e < y.e
         \/ x.e = y.e /\ x.a < y.a
         \/ x.e = y.e /\ x.a = y.a /\ x.b < y.b
         \/ x.e = y.e /\ x.a = y.a /\ x.b = y.b /\ x.c < y.c

\* C5 as stated: for a non-empty FilteredView the computed
\* freePercentage + paidPercentage is 100.
C5_FreePlusPaidIsHundred ==
    (Rendered /\ FilteredView # << >>) =>
        F64Add(run.free_percentage, paid_percentage(FilteredView)) = Hundred

\* C5 as amended: for a non-empty FilteredView the Free, Paid and other
\* rows add up to the row count; when every row is Free or Paid the
\* computed freePercentage + paidPercentage is within 2 units in the last
\* place (2^-45) of 100, and with a row of another or missing type it is
\* below 100.
C5_SumWithinRounding ==
    (Rendered /\ FilteredView # << >>) =>
        LET n == Len(FilteredView)
            free == free_count(FilteredView)
            paid == paid_count(FilteredView)
            other == Len(SelectSeq(FilteredView,
                                   LAMBDA r : r.row.Type \notin {"Free", "Paid"}))
            total == F64Add(run.free_percentage, paid_percentage(FilteredView))
        IN  /\ free + paid + other = n
            /\ other = 0 => WithinUlps(total, Hundred, 2)
            /\ other > 0 => F64Less(total, Hundred)

\* two Free rows and one Paid row: the computed sum is not 100
C5_Witness ==
    /\ Rendered
    /\ Len(FilteredView) = 3
    /\ free_count(FilteredView) = 2
    /\ paid_count(FilteredView) = 1
    /\ F64Add(run.free_percentage, paid_percentage(FilteredView)) # Hundred

\* C6: tightening one threshold gives a subset of the FilteredView, and the
\* FilteredView is a subset of the Dataset.
C6_Monotonic ==
    Rendered =>
        /\ RowSet(FilteredView) \subseteq RowSet(Dataset)
        /\ \A r \in RatingStops :
              r >= run.criteria.min_rating =>
                  RowSet(apply_filters(Dataset, [run.criteria EXCEPT !.min_rating = r]))
                      \subseteq RowSet(FilteredView)
        /\ \A n \in ReviewStops :
              n >= run.criteria.min_reviews =>
                  RowSet(apply_filters(Dataset, [run.criteria EXCEPT !.min_reviews = n]))
                      \subseteq RowSet(FilteredView)

\* a tighter rating threshold drops some of the rows shown and keeps some
C6_Witness ==
    /\ Rendered
    /\ run.criteria.min_rating = 0
    /\ \E r \in RatingStops :
          LET tighter == apply_filters(Dataset, [run.criteria EXCEPT !.min_rating = r])
          IN  Len(tighter) > 0 /\ Len(tighter) < Len(FilteredView)
    /\ Len(FilteredView) < Len(Dataset)

\* C7: once a table is loaded, no step reads a file again or changes the
\* memoized Dataset, and every script run filters that same Dataset with
\* the widget values of the run.
C7_LoadedOnce ==
    [][ (cache.filled /\ ~cache.value.none) =>
            /\ cache' = cache
            /\ read_log' = read_log
            /\ run'.ran /\ ~run'.stopped
            /\ run'.df = cache.value
            /\ run'.criteria = widgets'
            /\ run'.df_filtered = apply_filters(cache.value.rows, widgets') ]_vars

\* a run answered from the memo, with other filter values than the first
\* run had, while neither candidate file holds the loaded table any more
C7_Witness ==
    /\ Rendered
    /\ run.cache_hit
    /\ run.df = cache.value
    /\ run.criteria # DefaultWidgets
    /\ \A p \in 1..2 : disk[p].kind # "csv" \/ WithIndex(disk[p].rows) # Dataset

\* what a run shows
Displayed(r) == [r EXCEPT !.cache_hit = FALSE]

\* C8: two script runs over the same Dataset with the same FilterCriteria
\* show the same values, the rows of the scatter chart included.
C8_Deterministic ==
    [][ (Rendered /\ run'.ran /\ ~run'.stopped
         /\ run'.df = run.df /\ run'.criteria = run.criteria) =>
            Displayed(run') = Displayed(run) ]_vars

\* the rows of the FilteredView whose field lies in (bins[i], bins[i+1]]
Members(rows, name, bins, i) ==
    SelectSeq(rows, LAMBDA r : /\ r.row[name] # NaN
                               /\ bins[i] < r.row[name]
                               /\ r.row[name] <= bins[i + 1])

Bucketized(chart, rows, name, bins, labels) ==
    /\ Len(chart) = Len(labels)
    /\ Len(labels) = Len(bins) - 1
    /\ \A i \in 1..Len(labels) :
          LET g == Members(rows, name, bins, i)
          IN  /\ chart[i].x = labels[i]
              /\ Len(g) = 0 <=> isnan(chart[i].y)
              /\ Len(g) > 0 =>
                    chart[i].y = Q(SumSeq(Column(g, "Rating")), 10 * Len(g))
    /\ \A r \in RowSet(rows) :
          LET v == r.row[name]
              holding == { i \in 1..Len(labels) : r \in RowSet(Members(rows, name, bins, i)) }
          IN  IF v # NaN /\ bins[1] < v /\ v <= bins[Len(bins)]
              THEN Cardinality(holding) = 1
              ELSE holding = {}

\* C9: every row whose price (size) lies in the covered range is in exactly
\* one half-open interval (lo, hi]; each bar shows the mean rating of its
\* interval under the interval's label, and an interval without rows is
\* still drawn, with nan and not with zero.
C9_Bucketize ==
    Rendered =>
        /\ Bucketized(run.price_chart, FilteredView, "Price_Clean", price_bins, price_labels)
        /\ Bucketized(run.size_chart, FilteredView, "Size_MB", size_bins, size_labels)

\* some intervals of the price chart hold rows and some hold none
C9_Witness ==
    /\ Rendered
    /\ \E i \in 1..Len(run.price_chart) : isnan(run.price_chart[i].y)
    /\ \E i \in 1..Len(run.price_chart) : ~isnan(run.price_chart[i].y)
    /\ \E i \in 1..Len(run.size_chart) : isnan(run.size_chart[i].y)
    /\ \E i \in 1..Len(run.size_chart) : ~isnan(run.size_chart[i].y)

\* C10: the bar labelled 'Free' is the mean rating of exactly the rows of
\* the FilteredView whose price is 0.
C10_FreeBarIsPriceZero ==
    Rendered =>
        /\ run.price_chart[1].x = "Free"
        /\ run.price_chart[1].y =
              mean(Column(SelectSeq(FilteredView, LAMBDA r : r.row.Price_Clean = 0),
                          "Rating"), 10)

====
